---- MODULE Spec2Model ----
(***************************************************************************)
(* Model of gamatrix's ingested data store: the merge of per-user batches  *)
(* into the shared catalog (DataStoreHelper.update_user_data,              *)
(* remove_user_data) and its persistence with rotating backups             *)
(* (save_data_store, _rotate_backups, load_data_store).                    *)
(*                                                                         *)
(* Python lists are sequences, dicts are functions.  An Optional[int] is   *)
(* the empty sequence for None and <<n>> for the integer n.  A GameData    *)
(* carries the fields the merge reads or writes; title, slug, igdb_key,    *)
(* comment and url are copied verbatim on insert and never touched by the  *)
(* merge, so they are left out of the record.                              *)
(*                                                                         *)
(* Further parts: two upload requests interleaving on one store path       *)
(* (upload_file), the load of damaged documents, the comparison query on   *)
(* the store and on the databases (get_common_games_from_data_store,       *)
(* gogDB.get_common_games, filter_games, get_caption) and the choice of    *)
(* the IGDB key (Database.get_igdb_release_key), the duplicate-title pass  *)
(* of the original script (merge_duplicate_titles) and an ingestion over   *)
(* all users in which some extractions fail (rebuild_data_store,           *)
(* process_all_users); there comment and url ride along on each game.      *)
(***************************************************************************)
EXTENDS Integers, Sequences, FiniteSets, TLC

\* Optional[int]: None and an integer value
None == <<>>

Some(n) == <<n>>

\* ------------------------------------------------- users and release keys
Users == {1, 2}
OrderUsers == <<1, 2, 3>>
ReleaseKeys == {"steam_100", "gog_100"}

\* ------------------------------------------------------------ list helpers
Range(s) == {s[i] : i \in 1..Len(s)}

Contains(s, x) == \E i \in 1..Len(s) : s[i] = x

\* list.append(x) guarded by "if x not in list"
AppendIfMissing(s, x) == IF Contains(s, x) THEN s ELSE Append(s, x)

\* list.remove(x): drops the first occurrence only
RECURSIVE ListRemove(_, _)
ListRemove(s, x) ==
    IF s = <<>> THEN <<>>
    ELSE IF Head(s) = x THEN Tail(s)
    ELSE <<Head(s)>> \o ListRemove(Tail(s), x)

\* ---------------------------------------------------------- data classes
GameData(release_key, platforms, owners, installed, multiplayer, max_players) ==
    [release_key |-> release_key, platforms |-> platforms, owners |-> owners,
     installed |-> installed, multiplayer |-> multiplayer,
     max_players |-> max_players]

UserData(user_id, total_games, installed_games) ==
    [user_id |-> user_id, total_games |-> total_games,
     installed_games |-> installed_games]

DataStore(users, games, last_updated) ==
    [users |-> users, games |-> games, last_updated |-> last_updated,
     version |-> "1.0"]

EmptyMap == [x \in {} |-> {}]

EmptyStore == DataStore(EmptyMap, EmptyMap, 0)

\* ------------------------------------------------- extraction of a batch
\* platform = release_key.split("_")[0], "unknown" when not in PLATFORMS
PlatformOf(release_key) ==
    CASE release_key = "steam_100" -> "steam"
      [] release_key = "gog_100" -> "gog"
      [] release_key = "steam_200" -> "steam"
      [] OTHER -> "unknown"

\* the game_info dicts get_common_games can hand to extract_user_data for a
\* release key: the platform comes from the key (or is "unknown"), multiplayer
\* and max_players from the configured metadata
VariedInfos(release_key) ==
    {[platforms |-> <<PlatformOf(release_key)>>, multiplayer |-> FALSE,
      max_players |-> None],
     [platforms |-> <<"unknown">>, multiplayer |-> TRUE,
      max_players |-> Some(2)],
     [platforms |-> <<PlatformOf(release_key)>>, multiplayer |-> TRUE,
      max_players |-> Some(4)]}

\* the same under one fixed configuration: a title is single player with no
\* player count, or multiplayer with one
ConfiguredInfos(release_key) ==
    {[platforms |-> <<PlatformOf(release_key)>>, multiplayer |-> FALSE,
      max_players |-> None],
     [platforms |-> <<PlatformOf(release_key)>>, multiplayer |-> TRUE,
      max_players |-> Some(2)]}

\* extract_user_data, the conversion loop and the UserData it builds:
\* owned = keys of all_games, inst = installed_games, info = game_info per key
ExtractUserData(user_id, owned, inst, info) ==
    [user_data |-> UserData(user_id, Cardinality(owned),
                            Cardinality(owned \cap inst)),
     games |-> [k \in owned |->
                  GameData(k, info[k].platforms, <<user_id>>,
                           IF k \in inst THEN <<user_id>> ELSE <<>>,
                           info[k].multiplayer, info[k].max_players)]]

\* ------------------------------------------------------ update_user_data
RECURSIVE MergePlatforms(_, _)
MergePlatforms(existing, incoming) ==
    IF incoming = <<>> THEN existing
    ELSE MergePlatforms(AppendIfMissing(existing, Head(incoming)), Tail(incoming))

\* a merge that appends the owner without looking
MergeOwners_Always(owners, user_id) == Append(owners, user_id)

MergeOwners(owners, user_id) == AppendIfMissing(owners, user_id)

\* a merge that only ever adds the user to installed
MergeInstalled_AddOnly(installed, incoming, user_id) ==
    IF Contains(incoming, user_id) /\ ~Contains(installed, user_id)
    THEN Append(installed, user_id)
    ELSE installed

MergeInstalled(installed, incoming, user_id) ==
    IF Contains(incoming, user_id) /\ ~Contains(installed, user_id)
    THEN Append(installed, user_id)
    ELSE IF ~Contains(incoming, user_id) /\ Contains(installed, user_id)
    THEN ListRemove(installed, user_id)
    ELSE installed

\* a merge that takes the incoming flag as it is
MergeMultiplayer_Incoming(existing, incoming) == incoming

MergeMultiplayer(existing, incoming) ==
    IF ~existing /\ incoming THEN incoming ELSE existing

\* a merge that lets the last known player count win
MergeMaxPlayers_LastWins(existing, incoming) ==
    IF incoming # None THEN incoming ELSE existing

MergeMaxPlayers(existing, incoming) ==
    IF existing = None /\ incoming # None THEN incoming
    ELSE IF incoming # None /\ existing # None /\ incoming[1] > existing[1]
    THEN incoming
    ELSE existing

MergeGame(existing_game, game_data, user_id) ==
    [existing_game EXCEPT
        !.owners = MergeOwners(@, user_id),
        !.installed = MergeInstalled(@, game_data.installed, user_id),
        !.platforms = MergePlatforms(@, game_data.platforms),
        !.multiplayer = MergeMultiplayer(@, game_data.multiplayer),
        !.max_players = MergeMaxPlayers(@, game_data.max_players)]

UpdateUserData(data_store, user_id, user_data, games) ==
    [data_store EXCEPT
        !.users = [u \in DOMAIN data_store.users \cup {user_id} |->
                     IF u = user_id THEN user_data ELSE data_store.users[u]],
        !.games = [k \in DOMAIN data_store.games \cup DOMAIN games |->
                     IF k \notin DOMAIN games THEN data_store.games[k]
                     ELSE IF k \in DOMAIN data_store.games
                     THEN MergeGame(data_store.games[k], games[k], user_id)
                     ELSE games[k]]]

\* ------------------------------------------------------ remove_user_data
\* a removal that forgets the installed list
RemoveFromGame_OwnersOnly(game_data, user_id) ==
    [game_data EXCEPT
        !.owners = IF Contains(@, user_id) THEN ListRemove(@, user_id) ELSE @]

RemoveFromGame(game_data, user_id) ==
    [game_data EXCEPT
        !.owners = IF Contains(@, user_id) THEN ListRemove(@, user_id) ELSE @,
        !.installed = IF Contains(@, user_id) THEN ListRemove(@, user_id) ELSE @]

\* a removal that keeps the games nobody owns any more
GamesToRemove_None(games, user_id) == {}

GamesToRemove(games, user_id) ==
    {k \in DOMAIN games : RemoveFromGame(games[k], user_id).owners = <<>>}

\* a removal that deletes the user record and leaves the games alone
RemoveUserData_UserOnly(data_store, user_id) ==
    [data_store EXCEPT
        !.users = [u \in DOMAIN data_store.users \ {user_id} |->
                     data_store.users[u]]]

RemoveUserData(data_store, user_id) ==
    [data_store EXCEPT
        !.users = [u \in DOMAIN data_store.users \ {user_id} |->
                     data_store.users[u]],
        !.games = [k \in DOMAIN data_store.games
                           \ GamesToRemove(data_store.games, user_id) |->
                     RemoveFromGame(data_store.games[k], user_id)]]

\* ------------------------------------------------------------ the files
\* DataStoreHelper.__init__: max_backups defaults to 3
max_backups == 3

\* a file is missing (<<>>) or holds a document, whole or cut short
Absent == <<>>

Whole(doc) == <<[doc |-> doc, complete |-> TRUE]>>

Torn(doc) == <<[doc |-> doc, complete |-> FALSE]>>

LivePath == <<"data_store", 0>>

TmpPath == <<"data_store.tmp", 0>>

BackupPath(i) == <<"data_store.backup", i>>

\* the slots a rotation can name, one past max_backups included
BackupSlots == 1..(max_backups + 1)

Paths == {LivePath, TmpPath} \cup {BackupPath(i) : i \in BackupSlots}

NoFiles == [p \in Paths |-> Absent]

\* ---------------------------------------------------- save: serialization
\* str(k) of a user id and int(user_id) of a key of the document
StrKey(user_id) == ToString(user_id)

IntKey(key) == CHOOSE n \in 0..9 : ToString(n) = key

\* int(user_id) raises ValueError on a key that is not a number
IsIntKey(key) == \E n \in 0..9 : ToString(n) = key

\* data_dict: users keyed by str(k), every record as asdict gives it
Serialize(data_store) ==
    [users |-> [key \in {StrKey(u) : u \in DOMAIN data_store.users} |->
                  data_store.users[IntKey(key)]],
     games |-> data_store.games,
     last_updated |-> data_store.last_updated,
     version |-> data_store.version]

\* ------------------------------------------------------- load_data_store
\* a GameData built from a dict that leaves max_players at its default
GameFromDict_DefaultPlayers(game_data) ==
    GameData(game_data.release_key, game_data.platforms, game_data.owners,
             game_data.installed, game_data.multiplayer, None)

\* GameData(**game_data): multiplayer and max_players have defaults
GameFromDict(game_data) ==
    GameData(game_data.release_key, game_data.platforms, game_data.owners,
             game_data.installed,
             IF "multiplayer" \in DOMAIN game_data
             THEN game_data.multiplayer ELSE FALSE,
             IF "max_players" \in DOMAIN game_data
             THEN game_data.max_players ELSE None)

\* UserData(**user_data)
UserFromDict(user_data) ==
    UserData(user_data.user_id, user_data.total_games, user_data.installed_games)

\* the fields of the dataclasses: a call with a keyword that is no field, or
\* without a field that has no default, raises TypeError
UserFields == {"user_id", "total_games", "installed_games"}

GameFields ==
    {"release_key", "platforms", "owners", "installed", "multiplayer",
     "max_players"}

RequiredGameFields == {"release_key", "platforms", "owners", "installed"}

\* the try block of load_data_store on a file that exists: the exception it
\* raises, or "none" and the DataStore it builds
LoadAttempt(file) ==
    IF ~file.complete THEN [raises |-> "JSONDecodeError"]
    ELSE LET data == file.doc
         IN IF "users" \notin DOMAIN data THEN [raises |-> "KeyError"]
            ELSE IF \E key \in DOMAIN data.users : ~IsIntKey(key)
            THEN [raises |-> "ValueError"]
            ELSE IF \E key \in DOMAIN data.users :
                       DOMAIN data.users[key] # UserFields
            THEN [raises |-> "TypeError"]
            ELSE IF "games" \notin DOMAIN data THEN [raises |-> "KeyError"]
            ELSE IF \E k \in DOMAIN data.games :
                       \/ ~(RequiredGameFields \subseteq DOMAIN data.games[k])
                       \/ ~(DOMAIN data.games[k] \subseteq GameFields)
            THEN [raises |-> "TypeError"]
            ELSE IF "last_updated" \notin DOMAIN data
            THEN [raises |-> "KeyError"]
            ELSE [raises |-> "none",
                  value |->
                    [users |-> [u \in {IntKey(key) : key \in DOMAIN data.users} |->
                                  UserFromDict(data.users[StrKey(u)])],
                     games |-> [k \in DOMAIN data.games |->
                                  GameFromDict(data.games[k])],
                     last_updated |-> data.last_updated,
                     version |-> IF "version" \in DOMAIN data
                                 THEN data.version ELSE "1.0"]]

\* a handler for missing keys only
Caught_KeyErrorOnly == {"KeyError"}

\* except Exception: every exception the try block can raise
Caught == {"JSONDecodeError", "KeyError", "TypeError", "ValueError"}

\* does load_data_store let an exception out
LoadRaises(files) ==
    /\ files[LivePath] # Absent
    /\ LoadAttempt(files[LivePath][1]).raises \notin Caught \cup {"none"}

\* a load that looks for the file in the wrong place
LoadDataStore_Missing(files) == <<>>

\* the Optional[DataStore] load_data_store returns: <<>> is None
LoadDataStore(files) ==
    IF files[LivePath] = Absent THEN <<>>
    ELSE LET attempt == LoadAttempt(files[LivePath][1])
         IN IF attempt.raises = "none" THEN <<attempt.value>> ELSE <<>>

\* ------------------------------------------------------- _rotate_backups
\* a rotation that shifts a backup two slots up
NextSlot_Skip(i) == i + 2

\* new_backup is slot i + 1
NextSlot(i) == i + 1

\* one iteration of the loop over i = max_backups - 1 .. 1
RotateShift(files, i) ==
    IF files[BackupPath(i)] = Absent THEN files
    ELSE IF i = max_backups - 1
    THEN [files EXCEPT ![BackupPath(i)] = Absent]
    ELSE [files EXCEPT ![BackupPath(NextSlot(i))] = files[BackupPath(i)],
                       ![BackupPath(i)] = Absent]

\* shutil.copy2(live, backup.1) when the live file exists
RotateCopy(files) ==
    IF files[LivePath] = Absent THEN files
    ELSE [files EXCEPT ![BackupPath(1)] = files[LivePath]]

\* a copy that stopped part way: backup.1 is cut short
RotateCopyTorn(files) ==
    IF files[LivePath] = Absent THEN files
    ELSE [files EXCEPT ![BackupPath(1)] = Torn(files[LivePath][1].doc)]

\* -------------------------------------------------------- save_data_store
\* a save that writes the document straight to the live file
WriteTarget_Live == LivePath

\* temp_path
WriteTarget == TmpPath

\* a handler that reports success
OnSaveError_True == "True"

\* the except branch of save_data_store returns False
OnSaveError == "False"

\* ------------------------------------------------------------------ state
VARIABLES
    store,      \* the DataStore in memory
    lastOp,     \* observer: the last operation on store
    ordBatch,   \* rebuild in two orders: the batch of each user
    ordFwd,     \*   the store built in configuration order
    ordRev,     \*   the store built in the reverse order
    ordStep,    \*   users merged so far
    twice,      \* one batch merged two times running
    fs,         \* the files: live file, temporary file, backups
    pc,         \* where save_data_store is
    rotI,       \* loop variable i of _rotate_backups
    clock,      \* datetime.now()
    saveCalls,  \* save_data_store calls so far
    saved,      \* observer: the documents moved onto the live file, in order
    call,       \* observer: live file and backups when the call began, what failed
    ret,        \* the last save's return value
    loaded,     \* what load_data_store last returned
    proc,       \* two ingestion requests: where each is and what it holds
    query,      \* a comparison query: its options, its position, its result
    keyCall,    \* a call of get_igdb_release_key and what it returned
    dedup,      \* a call of merge_duplicate_titles and what it returned
    batch       \* an ingestion over all users, some of them failing

mergeVars == <<store, lastOp>>

orderVars == <<ordBatch, ordFwd, ordRev, ordStep>>

twiceVars == <<twice>>

diskVars == <<fs, pc, rotI, clock, saveCalls, saved, call, ret, loaded>>

\* the requests, the query and the key resolution
asideVars == <<proc, query, keyCall, dedup, batch>>

vars == <<mergeVars, orderVars, twiceVars, diskVars, asideVars>>

\* the owned and installed release keys of a user's database with the
\* game_info of each owned key, infos[k] being the candidates for key k
Libraries(infos) ==
    UNION {[owned : {owned}, inst : SUBSET owned,
            info : {f \in [owned -> UNION {infos[k] : k \in owned}] :
                       \A k \in owned : f[k] \in infos[k]}] :
           owned \in SUBSET ReleaseKeys}

\* the batches extract_user_data can build for one user
BatchesFrom(libs, user_id) ==
    {ExtractUserData(user_id, l.owned, l.inst, l.info) : l \in libs}

ConfiguredLibraries == Libraries([k \in ReleaseKeys |-> ConfiguredInfos(k)])

VariedLibraries == Libraries([k \in ReleaseKeys |-> VariedInfos(k)])

Batches == [u \in Users |-> BatchesFrom(ConfiguredLibraries, u)]

\* lastOp observes the last operation: which one, for whom, the release keys
\* on which it took the user out of installed, and the keys it deleted
NoOp == [op |-> "init", user |-> 0, uninstalled |-> {}, deleted |-> {}]

Uninstalled(before, after, user_id) ==
    {k \in DOMAIN before.games \cap DOMAIN after.games :
        /\ Contains(before.games[k].installed, user_id)
        /\ ~Contains(after.games[k].installed, user_id)}

StoreInit ==
    /\ store = EmptyStore
    /\ lastOp = NoOp

OrderIdle ==
    /\ ordBatch = <<>>
    /\ ordFwd = EmptyStore
    /\ ordRev = EmptyStore
    /\ ordStep = 0

NotTwice == [user |-> 0, batch |-> <<>>, applied |-> 0, once |-> EmptyStore]

TwiceIdle == twice = NotTwice

NoCall == [preLive |-> Absent, preBackups |-> [i \in BackupSlots |-> Absent],
           fault |-> "none", rotFaults |-> FALSE, allTrue |-> TRUE]

NotLoaded == [done |-> FALSE, value |-> <<>>, raised |-> FALSE]

DiskInit ==
    /\ fs = NoFiles
    /\ pc = "idle"
    /\ rotI = 0
    /\ clock = 1
    /\ saveCalls = 0
    /\ saved = <<>>
    /\ call = NoCall
    /\ ret = "none"
    /\ loaded = NotLoaded

NoProcs == <<>>

NoQuery == [pc |-> "none"]

NoKeyCall == [pc |-> "none"]

NoDedup == [pc |-> "none"]

NoBatch == [pc |-> "none"]

AsideIdle ==
    /\ proc = NoProcs
    /\ query = NoQuery
    /\ keyCall = NoKeyCall
    /\ dedup = NoDedup
    /\ batch = NoBatch

Init == StoreInit /\ OrderIdle /\ TwiceIdle /\ DiskInit /\ AsideIdle

Update(user_id) ==
    /\ \E b \in Batches[user_id] :
        /\ store' = UpdateUserData(store, user_id, b.user_data, b.games)
        /\ lastOp' = [op |-> "update", user |-> user_id,
                      uninstalled |-> Uninstalled(store, store', user_id),
                      deleted |-> {}]
    /\ UNCHANGED <<orderVars, twiceVars, diskVars, asideVars>>

Remove(user_id) ==
    /\ store' = RemoveUserData(store, user_id)
    /\ lastOp' = [op |-> "remove", user |-> user_id,
                  uninstalled |-> Uninstalled(store, store', user_id),
                  deleted |-> DOMAIN store.games \ DOMAIN store'.games]
    /\ UNCHANGED <<orderVars, twiceVars, diskVars, asideVars>>

Next ==
    \/ \E u \in Users : Update(u)
    \/ \E u \in Users : Remove(u)

Spec == Init /\ [][Next]_vars

\* --------------------------------------------- rebuild in two user orders
\* rebuild_data_store merges the users in the order of config["users"]; here
\* it runs on the same batches with the configuration in one order (ordFwd)
\* and in the reverse order (ordRev).
NumOrderUsers == Len(OrderUsers)

OrderInit ==
    /\ ordBatch \in {f \in [1..NumOrderUsers -> UNION {BatchesFrom(VariedLibraries,
                                   OrderUsers[i]) : i \in 1..NumOrderUsers}] :
                        \A i \in 1..NumOrderUsers : f[i].user_data.user_id = OrderUsers[i]}
    /\ ordFwd = EmptyStore
    /\ ordRev = EmptyStore
    /\ ordStep = 0
    /\ StoreInit /\ TwiceIdle /\ DiskInit /\ AsideIdle

RebuildStep ==
    /\ ordStep < NumOrderUsers
    /\ LET i == ordStep + 1
           j == NumOrderUsers - ordStep
       IN /\ ordFwd' = UpdateUserData(ordFwd, OrderUsers[i],
                                       ordBatch[i].user_data, ordBatch[i].games)
          /\ ordRev' = UpdateUserData(ordRev, OrderUsers[j],
                                       ordBatch[j].user_data, ordBatch[j].games)
    /\ ordStep' = ordStep + 1
    /\ UNCHANGED <<ordBatch, mergeVars, twiceVars, diskVars, asideVars>>

OrderNext == RebuildStep

SpecOrder == OrderInit /\ [][OrderNext]_vars

\* ------------------------------------------- the same batch merged twice
\* the stores two ingestions can leave behind
SeedStores ==
    {EmptyStore} \cup
    {UpdateUserData(UpdateUserData(EmptyStore, u1, b1.user_data, b1.games),
                    u2, b2.user_data, b2.games) :
        <<u1, b1, u2, b2>> \in
            UNION {{<<v1, c1, v2, c2>> : c1 \in Batches[v1], c2 \in Batches[v2]} :
                   <<v1, v2>> \in Users \X Users}}

TwiceInit ==
    /\ store \in SeedStores
    /\ lastOp = NoOp
    /\ \E u \in Users : \E b \in BatchesFrom(VariedLibraries, u) :
          twice = [user |-> u, batch |-> b, applied |-> 0, once |-> EmptyStore]
    /\ OrderIdle /\ DiskInit /\ AsideIdle

MergeAgain ==
    /\ twice.applied < 2
    /\ store' = UpdateUserData(store, twice.user, twice.batch.user_data,
                               twice.batch.games)
    /\ twice' = [twice EXCEPT !.applied = @ + 1,
                              !.once = IF twice.applied = 0 THEN store' ELSE @]
    /\ lastOp' = [op |-> "update", user |-> twice.user,
                  uninstalled |-> Uninstalled(store, store', twice.user),
                  deleted |-> {}]
    /\ UNCHANGED <<orderVars, diskVars, asideVars>>

TwiceNext == MergeAgain

SpecTwice == TwiceInit /\ [][TwiceNext]_vars

\* ------------------------------------------ save_data_store, step by step
MaxSaves == 4

idleVars == <<mergeVars, orderVars, twiceVars, asideVars>>

\* try: if os.path.exists(self.data_store_path): self._rotate_backups()
SaveBegin ==
    /\ pc = "idle"
    /\ saveCalls < MaxSaves
    /\ saveCalls' = saveCalls + 1
    /\ pc' = IF fs[LivePath] # Absent THEN "rotate" ELSE "stamp"
    /\ rotI' = max_backups - 1
    /\ call' = [call EXCEPT
                    !.preLive = fs[LivePath],
                    !.preBackups = [i \in BackupSlots |-> fs[BackupPath(i)]],
                    !.fault = "none"]
    /\ ret' = "running"
    /\ loaded' = NotLoaded
    /\ UNCHANGED <<fs, clock, saved, idleVars>>

\* one iteration of the rotation loop
RotateStep ==
    /\ pc = "rotate"
    /\ rotI >= 1
    /\ fs' = RotateShift(fs, rotI)
    /\ rotI' = rotI - 1
    /\ UNCHANGED <<pc, clock, saveCalls, saved, call, ret, loaded, idleVars>>

\* after the loop: the live file is copied to backup.1
RotateFinish ==
    /\ pc = "rotate"
    /\ rotI = 0
    /\ fs' = RotateCopy(fs)
    /\ pc' = "stamp"
    /\ UNCHANGED <<rotI, clock, saveCalls, saved, call, ret, loaded, idleVars>>

\* an os.remove, shutil.move or shutil.copy2 of the rotation raises: the
\* handler of _rotate_backups logs a warning and the save carries on.  A copy
\* that raises may have written part of backup.1.
RotateFault ==
    /\ pc = "rotate"
    /\ \/ fs' = fs
       \/ rotI = 0 /\ fs' = RotateCopyTorn(fs)
    /\ pc' = "stamp"
    /\ call' = [call EXCEPT !.fault = "rotate", !.rotFaults = TRUE]
    /\ UNCHANGED <<rotI, clock, saveCalls, saved, ret, loaded, idleVars>>

\* data_store.last_updated = datetime.now().isoformat(); data_dict is built
SaveStamp ==
    /\ pc = "stamp"
    /\ store' = [store EXCEPT !.last_updated = clock]
    /\ clock' = clock + 1
    /\ pc' = "write"
    /\ UNCHANGED <<lastOp, orderVars, twiceVars, asideVars, fs, rotI, saveCalls,
                   saved, call, ret, loaded>>

\* building data_dict raises after the timestamp was set
SerializeFault ==
    /\ pc = "stamp"
    /\ store' = [store EXCEPT !.last_updated = clock]
    /\ clock' = clock + 1
    /\ pc' = "idle"
    /\ ret' = OnSaveError
    /\ call' = [call EXCEPT !.fault = "serialize", !.allTrue = FALSE]
    /\ UNCHANGED <<lastOp, orderVars, twiceVars, asideVars, fs, rotI, saveCalls,
                   saved, loaded>>

\* with open(temp_path, "w") as f: json.dump(data_dict, f, indent=2)
WriteTmp ==
    /\ pc = "write"
    /\ fs' = [fs EXCEPT ![WriteTarget] = Whole(Serialize(store))]
    /\ pc' = "move"
    /\ UNCHANGED <<rotI, clock, saveCalls, saved, call, ret, loaded, idleVars>>

\* open raises (the file is as it was) or the write raises part way
WriteFault ==
    /\ pc = "write"
    /\ \/ fs' = fs
       \/ fs' = [fs EXCEPT ![WriteTarget] = Torn(Serialize(store))]
    /\ pc' = "idle"
    /\ ret' = OnSaveError
    /\ call' = [call EXCEPT !.fault = "write", !.allTrue = FALSE]
    /\ UNCHANGED <<rotI, clock, saveCalls, saved, loaded, idleVars>>

\* shutil.move(temp_path, self.data_store_path): a rename within one
\* directory; it raises when the temporary file is not there
SaveMove ==
    /\ pc = "move"
    /\ IF fs[TmpPath] = Absent
       THEN /\ pc' = "idle"
            /\ ret' = OnSaveError
            /\ call' = [call EXCEPT !.fault = "move", !.allTrue = FALSE]
            /\ UNCHANGED <<fs, saved>>
       ELSE /\ fs' = [fs EXCEPT ![LivePath] = fs[TmpPath], ![TmpPath] = Absent]
            /\ saved' = Append(saved, fs[TmpPath])
            /\ pc' = "return"
            /\ UNCHANGED <<call, ret>>
    /\ UNCHANGED <<rotI, clock, saveCalls, loaded, idleVars>>

\* return True
SaveReturn ==
    /\ pc = "return"
    /\ pc' = "idle"
    /\ ret' = "True"
    /\ UNCHANGED <<fs, rotI, clock, saveCalls, saved, call, loaded, idleVars>>

\* the process is stopped inside save_data_store; a copy or a write that was
\* under way leaves its target cut short
Interrupt ==
    /\ pc \notin {"idle"}
    /\ \/ fs' = fs
       \/ pc = "rotate" /\ rotI = 0 /\ fs' = RotateCopyTorn(fs)
       \/ pc = "write" /\ fs' = [fs EXCEPT ![WriteTarget] = Torn(Serialize(store))]
    /\ pc' = "idle"
    /\ ret' = "interrupted"
    /\ call' = [call EXCEPT !.allTrue = FALSE]
    /\ UNCHANGED <<rotI, clock, saveCalls, saved, loaded, idleVars>>

\* load_data_store
Load ==
    /\ pc = "idle"
    /\ ~loaded.done
    /\ loaded' = [done |-> TRUE, value |-> LoadDataStore(fs),
                  raised |-> LoadRaises(fs)]
    /\ UNCHANGED <<fs, pc, rotI, clock, saveCalls, saved, call, ret, idleVars>>

\* saves and loads of any store two ingestions leave, every step succeeding
PersistInit ==
    /\ store \in SeedStores
    /\ lastOp = NoOp
    /\ OrderIdle /\ TwiceIdle /\ DiskInit /\ AsideIdle

PersistNext ==
    \/ SaveBegin
    \/ RotateStep
    \/ RotateFinish
    \/ SaveStamp
    \/ WriteTmp
    \/ SaveMove
    \/ SaveReturn
    \/ Load

SpecPersist == PersistInit /\ [][PersistNext]_vars

\* the same with failing steps and interruptions, on the store one ingestion
\* leaves
FaultyStores ==
    {UpdateUserData(EmptyStore, u, b.user_data, b.games) :
        <<u, b>> \in {<<v, c>> \in Users \X Batches[1] :
                        v = 1 /\ c.user_data.installed_games = 1
                              /\ c.user_data.total_games = 2}}

FaultyInit ==
    /\ store \in FaultyStores
    /\ lastOp = NoOp
    /\ OrderIdle /\ TwiceIdle /\ DiskInit /\ AsideIdle

FaultyNext ==
    \/ PersistNext
    \/ RotateFault
    \/ SerializeFault
    \/ WriteFault
    \/ Interrupt

SpecFaulty == FaultyInit /\ [][FaultyNext]_vars

\* ------------------------------- two ingestion requests, no lock between
\* upload_file for user p: load_data_store, extract_user_data,
\* update_user_data, save_data_store, on the one store path.  proc[p] is the
\* request of user p: where it is (pc), the DataStore it holds (ds), the loop
\* variable of its rotation (rotI), the file its open descriptor refers to
\* (fd), whether nobody else touched that file since it was opened (clean),
\* what its save returned (ret) and the requests that had returned when it
\* loaded (after).
RaceBatches ==
    [u \in Users |->
        {b \in Batches[u] : b.user_data.total_games = u
                              /\ b.user_data.installed_games = 1}]

RaceInit ==
    /\ proc = [p \in Users |->
                 [pc |-> "load", ds |-> EmptyStore, rotI |-> 0, fd |-> "none",
                  clean |-> TRUE, ret |-> "none", after |-> {}]]
    /\ fs \in {NoFiles, [NoFiles EXCEPT ![LivePath] = Whole(Serialize(EmptyStore))]}
    /\ pc = "idle"
    /\ rotI = 0
    /\ clock = 1
    /\ saveCalls = 0
    /\ saved = <<>>
    /\ call = NoCall
    /\ ret = "none"
    /\ loaded = NotLoaded
    /\ query = NoQuery
    /\ keyCall = NoKeyCall
    /\ dedup = NoDedup
    /\ batch = NoBatch
    /\ StoreInit /\ OrderIdle /\ TwiceIdle

raceIdle == <<mergeVars, orderVars, twiceVars, pc, rotI, saveCalls, saved,
              call, ret, loaded, query, keyCall, dedup, batch>>

\* data_store = load_data_store(); user_data, user_games = extract_user_data();
\* data_store = update_user_data(data_store, user, user_data, user_games)
ReqLoad(p) ==
    /\ proc[p].pc = "load"
    /\ \E b \in RaceBatches[p] :
          LET found == LoadDataStore(fs)
              data_store == IF found = <<>> THEN EmptyStore ELSE found[1]
          IN proc' = [proc EXCEPT
                         ![p].ds = UpdateUserData(data_store, p, b.user_data,
                                                  b.games),
                         ![p].after = {q \in Users : proc[q].pc = "done"},
                         ![p].pc = "begin"]
    /\ UNCHANGED <<fs, clock, raceIdle>>

\* save_data_store: if os.path.exists(self.data_store_path): _rotate_backups()
ReqSaveBegin(p) ==
    /\ proc[p].pc = "begin"
    /\ proc' = [proc EXCEPT
                   ![p].pc = IF fs[LivePath] # Absent THEN "rotate" ELSE "open",
                   ![p].rotI = max_backups - 1]
    /\ UNCHANGED <<fs, clock, raceIdle>>

\* one iteration of the rotation loop; next to another request that rotates,
\* a file seen by os.path.exists may be gone at the move: the rotation raises
\* and its handler ends it
ReqRotateStep(p) ==
    /\ proc[p].pc = "rotate"
    /\ proc[p].rotI >= 1
    /\ \/ /\ fs' = RotateShift(fs, proc[p].rotI)
          /\ proc' = [proc EXCEPT ![p].rotI = @ - 1]
       \/ /\ \E q \in Users \ {p} : proc[q].pc = "rotate"
          /\ proc' = [proc EXCEPT ![p].pc = "open"]
          /\ fs' = fs
    /\ UNCHANGED <<clock, raceIdle>>

\* shutil.copy2(live, backup.1); two copies at once leave either or a mix
ReqRotateFinish(p) ==
    /\ proc[p].pc = "rotate"
    /\ proc[p].rotI = 0
    /\ \/ fs' = RotateCopy(fs)
       \/ /\ \E q \in Users \ {p} : proc[q].pc = "rotate" /\ proc[q].rotI = 0
          /\ fs' = RotateCopyTorn(fs)
    /\ proc' = [proc EXCEPT ![p].pc = "open"]
    /\ UNCHANGED <<clock, raceIdle>>

\* last_updated is stamped, data_dict is built and open(temp_path, "w")
\* creates the temporary file or empties the one that is there
ReqOpenTmp(p) ==
    /\ proc[p].pc = "open"
    /\ LET stamped == [proc[p].ds EXCEPT !.last_updated = clock]
       IN /\ fs' = [fs EXCEPT ![TmpPath] = Torn(Serialize(stamped))]
          /\ proc' = [q \in Users |->
                        IF q = p
                        THEN [proc[p] EXCEPT !.ds = stamped, !.fd = "tmp",
                                             !.clean = TRUE, !.pc = "write"]
                        ELSE IF proc[q].pc = "write" /\ proc[q].fd = "tmp"
                        THEN [proc[q] EXCEPT !.clean = FALSE]
                        ELSE proc[q]]
    /\ clock' = clock + 1
    /\ UNCHANGED raceIdle

\* json.dump(data_dict, f) and the close of the file: the bytes go to the
\* file the descriptor refers to, which a move by the other request may have
\* made the live file; when the other request has emptied or written the same
\* file meanwhile, what is left is this document or a mix
ReqWriteTmp(p) ==
    /\ proc[p].pc = "write"
    /\ LET doc == Serialize(proc[p].ds)
           path == IF proc[p].fd = "live" THEN LivePath ELSE TmpPath
       IN IF proc[p].fd = "lost"
          THEN fs' = fs
          ELSE \/ fs' = [fs EXCEPT ![path] = Whole(doc)]
               \/ ~proc[p].clean /\ fs' = [fs EXCEPT ![path] = Torn(doc)]
    /\ proc' = [q \in Users |->
                  IF q = p THEN [proc[p] EXCEPT !.fd = "none", !.pc = "move"]
                  ELSE IF proc[q].pc = "write" /\ proc[q].fd = proc[p].fd
                  THEN [proc[q] EXCEPT !.clean = FALSE]
                  ELSE proc[q]]
    /\ UNCHANGED <<clock, raceIdle>>

\* shutil.move(temp_path, self.data_store_path) and return True; when the
\* other request has moved the temporary file away the move raises and the
\* handler returns False.  A descriptor the other request holds follows its
\* file.
ReqMove(p) ==
    /\ proc[p].pc = "move"
    /\ IF fs[TmpPath] = Absent
       THEN /\ proc' = [proc EXCEPT ![p].pc = "done", ![p].ret = OnSaveError]
            /\ fs' = fs
       ELSE /\ fs' = [fs EXCEPT ![LivePath] = fs[TmpPath], ![TmpPath] = Absent]
            /\ proc' = [q \in Users |->
                          IF q = p
                          THEN [proc[p] EXCEPT !.pc = "done", !.ret = "True"]
                          ELSE IF proc[q].pc = "write"
                          THEN [proc[q] EXCEPT
                                   !.fd = IF @ = "tmp" THEN "live" ELSE "lost"]
                          ELSE proc[q]]
    /\ UNCHANGED <<clock, raceIdle>>

RaceNext ==
    \E p \in Users :
        \/ ReqLoad(p)
        \/ ReqSaveBegin(p)
        \/ ReqRotateStep(p)
        \/ ReqRotateFinish(p)
        \/ ReqOpenTmp(p)
        \/ ReqWriteTmp(p)
        \/ ReqMove(p)

SpecRace == RaceInit /\ [][RaceNext]_vars

\* ---------------------------------------------------- the comparison query
\* Strings that are compared are sequences of character codes.  The titles
\* of the release keys: "Ab", "a-B" and "aA".
QueryKeys == ReleaseKeys \cup {"steam_200"}

TitleOf(release_key) ==
    CASE release_key = "steam_100" -> <<65, 98>>
      [] release_key = "gog_100" -> <<97, 45, 66>>
      [] OTHER -> <<97, 65>>

\* get_slug_from_title: lower case, every character that is no letter or
\* digit removed
SlugFromTitle(title) ==
    SelectSeq([i \in 1..Len(title) |->
                  IF title[i] \in 65..90 THEN title[i] + 32 ELSE title[i]],
              LAMBDA c : c \in (48..57) \cup (97..122))

\* a < b on strings
StrLess(a, b) ==
    \E i \in 1..Len(b) :
        /\ i <= Len(a) + 1
        /\ \A j \in 1..(i - 1) : a[j] = b[j]
        /\ (i = Len(a) + 1 \/ a[i] < b[i])

\* the entry of a game in the dict a query works on; title, igdb_key, comment
\* and url are carried along unread and left out
GameEntry(game_data) ==
    [release_key |-> game_data.release_key,
     slug |-> SlugFromTitle(TitleOf(game_data.release_key)),
     platforms |-> game_data.platforms, owners |-> game_data.owners,
     installed |-> game_data.installed, multiplayer |-> game_data.multiplayer,
     max_players |-> game_data.max_players]

\* a test that asks for one of the selected users only
OwnedByCompared_Any(game_owners, comparing_users) ==
    game_owners \cap comparing_users # {}

\* comparing_users.issubset(game_owners)
OwnedByCompared(game_owners, comparing_users) ==
    comparing_users \subseteq game_owners

\* the exclusive branch: no owner among the users not selected, and an owner
\* among the selected
OwnedExclusively(game_owners, comparing_users, all_users) ==
    /\ game_owners \cap (all_users \ comparing_users) = {}
    /\ game_owners \cap comparing_users # {}

\* get_common_games_from_data_store, the body of the loop: is the game kept
KeepFromStore(game_data, data_store, opts) ==
    /\ IF opts.exclusive
       THEN OwnedExclusively(Range(game_data.owners), opts.user_ids_to_compare,
                             DOMAIN data_store.users)
       ELSE OwnedByCompared(Range(game_data.owners), opts.user_ids_to_compare)
    /\ ~(/\ opts.exclude_platforms # <<>>
         /\ Range(game_data.platforms) \subseteq Range(opts.exclude_platforms))
    /\ ~(~opts.include_single_player /\ ~game_data.multiplayer)

\* get_common_games_from_data_store on a store that was loaded: the kept
\* games in the order of data_store.games, which is games_order
GetCommonGamesFromDataStore(data_store, games_order, opts) ==
    LET kept == SelectSeq(games_order,
                          LAMBDA k : KeepFromStore(data_store.games[k],
                                                   data_store, opts))
    IN [i \in 1..Len(kept) |-> GameEntry(data_store.games[kept[i]])]

\* sorted(game_list.items(), key=cmp_to_key(self._sort)): a stable sort by
\* slug
RECURSIVE SortBySlug(_)
SortBySlug(game_list) ==
    IF game_list = <<>> THEN <<>>
    ELSE LET rest == SortBySlug(Tail(game_list))
             before == SelectSeq(rest, LAMBDA g : StrLess(g.slug, Head(game_list).slug))
             after == SelectSeq(rest, LAMBDA g : ~StrLess(g.slug, Head(game_list).slug))
         IN before \o <<Head(game_list)>> \o after

\* a sorted copy of a list of user ids
RECURSIVE SortedIds(_)
SortedIds(ids) ==
    IF ids = <<>> THEN <<>>
    ELSE LET least == CHOOSE u \in Range(ids) : \A v \in Range(ids) : u <= v
         IN <<least>> \o SortedIds(ListRemove(ids, least))

\* Database.__init__ and get_common_games: the games of the databases in
\* db_list (every user's in exclusive mode, else the selected users'), the
\* owners and installed lists holding the users of those databases, sorted by
\* slug, each owners list sorted
GetCommonGames(data_store, games_order, opts) ==
    LET db_users == IF opts.exclusive THEN DOMAIN data_store.users
                    ELSE opts.user_ids_to_compare \cap DOMAIN data_store.users
        seen == SelectSeq(games_order,
                          LAMBDA k : Range(data_store.games[k].owners)
                                         \cap db_users # {})
        entry(k) ==
            [GameEntry(data_store.games[k]) EXCEPT
                !.owners = SortedIds(SelectSeq(@, LAMBDA u : u \in db_users)),
                !.installed = SelectSeq(@, LAMBDA u : u \in db_users)]
    IN SortBySlug([i \in 1..Len(seen) |-> entry(seen[i])])

\* filter_games, the body of the loop: is the game kept
KeepFiltered(game, config, all_games) ==
    /\ ~(~config.include_single_player /\ ~game.multiplayer)
    /\ \/ all_games
       \/ \A owner \in config.user_ids_to_compare :
             /\ Contains(game.owners, owner)
             /\ ~(config.installed_only /\ ~Contains(game.installed, owner))

FilterGames(game_list, config, all_games) ==
    SelectSeq(game_list, LAMBDA game : KeepFiltered(game, config, all_games))

\* get_caption: the count it starts with and the wording that follows
GetCaption(num_games, random, config) ==
    [caption_start |-> [text |-> IF random THEN "Random game selected from"
                                 ELSE "",
                        num_games |-> num_games],
     caption_middle |->
        IF config.all_games THEN "total games owned by"
        ELSE IF Cardinality(config.user_ids_to_compare) = 1
        THEN "games owned by"
        ELSE "games in common between",
     installed |-> IF config.installed_only /\ ~config.all_games
                   THEN " (installed only)" ELSE ""]

\* the batches of the three users: gog_100 and steam_100 are multiplayer
\* titles for two players, steam_200 is a single player title
QueryBatches ==
    [u \in Range(OrderUsers) |->
        UNION {{ExtractUserData(u, owned, inst,
                    [k \in owned |->
                        [platforms |-> <<PlatformOf(k)>>,
                         multiplayer |-> k # "steam_200",
                         max_players |-> IF k = "steam_200" THEN None
                                         ELSE Some(2)]]) :
                  inst \in IF u = 3 THEN {{}} ELSE {{}, owned}} :
               owned \in IF u = 3 THEN {{"steam_200"}, ReleaseKeys}
                         ELSE {{"gog_100"}, {"steam_100", "steam_200"},
                               QueryKeys}}]

\* the options of a query: the command line has no exclusive mode, platform
\* exclusion or random pick
QueryOptions(entry) ==
    {o \in [user_ids_to_compare : SUBSET Range(OrderUsers) \ {{}},
            exclusive : BOOLEAN, include_single_player : BOOLEAN,
            exclude_platforms : {<<>>, <<"gog">>}, all_games : BOOLEAN,
            installed_only : BOOLEAN, randomize : BOOLEAN] :
        entry = "cli" =>
            ~o.exclusive /\ o.exclude_platforms = <<>> /\ ~o.randomize}

NoCaption == GetCaption(0, FALSE, [all_games |-> FALSE, installed_only |-> FALSE,
                                   user_ids_to_compare |-> {}])

QueryInit ==
    /\ query = [pc |-> "ingest", next |-> 1, games_order |-> <<>>,
                entry |-> "none", path |-> "none", opts |-> <<>>,
                common |-> <<>>, filtered |-> <<>>, num_games |-> 0,
                result |-> <<>>, caption |-> NoCaption]
    /\ proc = NoProcs
    /\ keyCall = NoKeyCall
    /\ dedup = NoDedup
    /\ batch = NoBatch
    /\ StoreInit /\ OrderIdle /\ TwiceIdle /\ DiskInit

queryIdle == <<orderVars, twiceVars, diskVars, proc, keyCall, dedup, batch>>

\* the ingestion of the next user, in the order of the configuration; the new
\* release keys enter data_store.games in the order of the batch, which is
\* sorted by slug.  The last user may have no database.
QIngest ==
    /\ query.pc = "ingest"
    /\ LET u == OrderUsers[query.next]
           pc_next == IF query.next = Len(OrderUsers) THEN "ready" ELSE "ingest"
       IN \/ \E b \in QueryBatches[u] :
                LET new == DOMAIN b.games \ DOMAIN store.games
                    slug(k) == SlugFromTitle(TitleOf(k))
                IN \E added \in [1..Cardinality(new) -> new] :
                      /\ Range(added) = new
                      /\ \A i \in 1..Len(added) : \A j \in i..Len(added) :
                            ~StrLess(slug(added[j]), slug(added[i]))
                      /\ store' = UpdateUserData(store, u, b.user_data, b.games)
                      /\ query' = [query EXCEPT
                                      !.games_order = @ \o added,
                                      !.next = @ + 1, !.pc = pc_next]
          \/ /\ query.next = Len(OrderUsers)
             /\ store' = store
             /\ query' = [query EXCEPT !.pc = pc_next]
    /\ UNCHANGED <<lastOp, queryIdle>>

\* get_common_games_from_data_store when load_data_store gave a store
QFromStore ==
    /\ query.pc = "ready"
    /\ \E entry \in {"cli", "web"} : \E opts \in QueryOptions(entry) :
          query' = [query EXCEPT
                       !.entry = entry, !.path = "store", !.opts = opts,
                       !.common = GetCommonGamesFromDataStore(
                                      store, query.games_order, opts),
                       !.pc = IF entry = "cli" THEN "print" ELSE "filter"]
    /\ UNCHANGED <<mergeVars, queryIdle>>

\* it gave None: gog = gogDB(config, opts); gog.get_common_games()
QFromDatabases ==
    /\ query.pc = "ready"
    /\ \E entry \in {"cli", "web"} : \E opts \in QueryOptions(entry) :
          query' = [query EXCEPT
                       !.entry = entry, !.path = "direct", !.opts = opts,
                       !.common = GetCommonGames(store, query.games_order, opts),
                       !.pc = "filter"]
    /\ UNCHANGED <<mergeVars, queryIdle>>

\* gog.filter_games(common_games, config["all_games"]); gog stands for
\* gogDB(config, opts) on either path
QFilter ==
    /\ query.pc = "filter"
    /\ query' = [query EXCEPT
                    !.filtered = FilterGames(query.common, query.opts,
                                             query.opts.all_games),
                    !.pc = IF query.entry = "cli" THEN "print" ELSE "render"]
    /\ UNCHANGED <<mergeVars, queryIdle>>

\* compare_libraries: num_games, the random pick and the caption;
\* random.choice raises IndexError on an empty list
QRender ==
    /\ query.pc = "render"
    /\ LET num_games == Len(query.filtered)
       IN IF query.opts.randomize /\ query.filtered = <<>>
          THEN query' = [query EXCEPT !.num_games = num_games, !.pc = "raised"]
          ELSE \E i \in 1..(IF num_games = 0 THEN 1 ELSE num_games) :
                  query' = [query EXCEPT
                               !.num_games = num_games,
                               !.result = IF query.opts.randomize
                                          THEN <<query.filtered[i]>>
                                          ELSE query.filtered,
                               !.caption = GetCaption(num_games,
                                                      query.opts.randomize,
                                                      query.opts),
                               !.pc = "done"]
    /\ UNCHANGED <<mergeVars, queryIdle>>

\* the command line prints common_games, which filter_games has seen only
\* when the store was not used, and the caption
QPrint ==
    /\ query.pc = "print"
    /\ LET common_games == IF query.path = "store" THEN query.common
                           ELSE query.filtered
       IN query' = [query EXCEPT
                       !.num_games = Len(common_games),
                       !.result = common_games,
                       !.caption = GetCaption(Len(common_games), FALSE,
                                              query.opts),
                       !.pc = "done"]
    /\ UNCHANGED <<mergeVars, queryIdle>>

QueryNext ==
    \/ QIngest
    \/ QFromStore
    \/ QFromDatabases
    \/ QFilter
    \/ QRender
    \/ QPrint

SpecQuery == QueryInit /\ [][QueryNext]_vars

\* ------------------------------------------- load_data_store on any file
\* a dict without one of its keys
DropField(record, field) == [f \in DOMAIN record \ {field} |-> record[f]]

\* the document of a store as an older or foreign writer may have left it:
\* one top-level field, or one field of one record, is missing, a record has
\* a field the dataclass does not know, or a user key is not a number
DamagedDocs(doc) ==
    {DropField(doc, f) : f \in DOMAIN doc}
      \cup {[doc EXCEPT !.users[key] = DropField(@, f)] :
               key \in DOMAIN doc.users, f \in UserFields}
      \cup {[doc EXCEPT !.games[k] = DropField(@, f)] :
               k \in DOMAIN doc.games, f \in GameFields}
      \cup {[doc EXCEPT !.games[k] =
                [f \in GameFields \cup {"genre"} |->
                    IF f = "genre" THEN "puzzle" ELSE doc.games[k][f]]] :
               k \in DOMAIN doc.games}
      \cup {[doc EXCEPT !.users =
                [key \in {"me"} |-> doc.users[StrKey(u)]]] :
               u \in {v \in Users : DOMAIN doc.users = {StrKey(v)}}}

FilesToLoad(doc) ==
    {Absent, Torn(doc), Whole(doc), Whole(EmptyMap)}
      \cup {Whole(d) : d \in DamagedDocs(doc)}

LoadInit ==
    /\ store \in SeedStores
    /\ lastOp = NoOp
    /\ \E file \in FilesToLoad(Serialize(store)) :
          fs = [NoFiles EXCEPT ![LivePath] = file]
    /\ pc = "idle"
    /\ rotI = 0
    /\ clock = 1
    /\ saveCalls = 0
    /\ saved = <<>>
    /\ call = NoCall
    /\ ret = "none"
    /\ loaded = NotLoaded
    /\ OrderIdle /\ TwiceIdle /\ AsideIdle

SpecLoad == LoadInit /\ [][Load]_vars

\* --------------------------------------------------- get_igdb_release_key
\* A release key is the sequence of its parts between underscores: "steam_55"
\* is <<"steam", "55">> and "steam_steam_55" is <<"steam", "steam", "55">>.
\* k.startswith(platform + "_")
StartsWith(k, platform) == Len(k) >= 2 /\ k[1] = platform

\* a test that takes the nested steam_steam_ keys as well
IsSteamAlias_Nested(k) == StartsWith(k, "steam")

\* k.startswith("steam_") and not k.startswith("steam_steam_")
IsSteamAlias(k) ==
    StartsWith(k, "steam") /\ ~(Len(k) >= 3 /\ k[1] = "steam" /\ k[2] = "steam")

\* for k in result["releases"]: the first the test accepts, <<>> when none
RECURSIVE FirstSteamAlias(_)
FirstSteamAlias(releases) ==
    IF releases = <<>> THEN <<>>
    ELSE IF IsSteamAlias(Head(releases)) THEN <<Head(releases)>>
    ELSE FirstSteamAlias(Tail(releases))

RECURSIVE FirstGogAlias(_)
FirstGogAlias(releases) ==
    IF releases = <<>> THEN <<>>
    ELSE IF StartsWith(Head(releases), "gog") THEN <<Head(releases)>>
    ELSE FirstGogAlias(Tail(releases))

\* result is the parsed allGameReleases value of the key: a dict with or
\* without "releases"
GetIgdbReleaseKey(release_key, result) ==
    IF "releases" \notin DOMAIN result THEN release_key
    ELSE IF FirstSteamAlias(result.releases) # <<>>
    THEN FirstSteamAlias(result.releases)[1]
    ELSE IF FirstGogAlias(result.releases) # <<>>
    THEN FirstGogAlias(result.releases)[1]
    ELSE release_key

\* the release keys and alias lists of the resolution
MaxAliases == 3

KeyPool ==
    {<<"steam", "55">>, <<"steam", "77">>, <<"steam", "steam", "55">>,
     <<"gog", "55">>, <<"origin", "55">>}

GamePieceValues ==
    {[releases |-> l] : l \in UNION {[1..n -> KeyPool] : n \in 0..MaxAliases}}
        \cup {[title |-> "Game A"]}

KeyInit ==
    /\ \E k \in KeyPool : \E r \in GamePieceValues :
          keyCall = [pc |-> "called", release_key |-> k, result |-> r,
                     returned |-> <<>>]
    /\ proc = NoProcs
    /\ query = NoQuery
    /\ dedup = NoDedup
    /\ batch = NoBatch
    /\ StoreInit /\ OrderIdle /\ TwiceIdle /\ DiskInit

ResolveKey ==
    /\ keyCall.pc = "called"
    /\ keyCall' = [keyCall EXCEPT
                      !.pc = "returned",
                      !.returned = GetIgdbReleaseKey(keyCall.release_key,
                                                     keyCall.result)]
    /\ UNCHANGED <<mergeVars, orderVars, twiceVars, diskVars, proc, query,
                   dedup, batch>>

SpecKey == KeyInit /\ [][ResolveKey]_vars

\* ------------------------------------------------- merge_duplicate_titles
\* sorted(platforms): "gog" < "steam" < "unknown" as strings
SortedPlatforms(platforms) ==
    LET named(name) == SelectSeq(platforms, LAMBDA p : p = name)
    IN named("gog") \o named("steam") \o named("unknown")

\* the while loop over the keys that follow keys[k]: platforms is the list of
\* game_list[k] with what was appended so far, working the copy that is
\* returned; the loop stops at the last key but one
RECURSIVE ScanSameTitle(_, _, _, _, _)
ScanSameTitle(game_list, k, next_key, platforms, working) ==
    IF game_list[next_key].sanitized_title # game_list[k].sanitized_title
    THEN working
    ELSE LET same_owners == game_list[next_key].owners = game_list[k].owners
             added == IF same_owners
                      THEN AppendIfMissing(platforms,
                                           game_list[next_key].platforms[1])
                      ELSE platforms
             merged == IF same_owners
                       THEN [working EXCEPT
                                ![next_key].deleted = TRUE,
                                ![k].platforms = SortedPlatforms(added)]
                       ELSE working
         IN IF next_key - 1 >= Len(game_list) - 2 THEN merged
            ELSE ScanSameTitle(game_list, k, next_key + 1, added, merged)

\* the for loop over the keys, from keys[k] on
RECURSIVE MergeFrom(_, _, _)
MergeFrom(game_list, k, working) ==
    IF k > Len(game_list) THEN working
    ELSE IF working[k].deleted \/ k - 1 >= Len(game_list) - 2
    THEN MergeFrom(game_list, k + 1, working)
    ELSE MergeFrom(game_list, k + 1,
                   ScanSameTitle(game_list, k, k + 1, game_list[k].platforms,
                                 working))

\* merge_duplicate_titles on the ordered dict game_list, a sequence of
\* entries in the order of its keys
MergeDuplicateTitles(game_list) ==
    LET copy == [k \in 1..Len(game_list) |->
                    [deleted |-> FALSE, platforms |-> game_list[k].platforms]]
        working == MergeFrom(game_list, 1, copy)
        kept == SelectSeq([k \in 1..Len(game_list) |-> k],
                          LAMBDA k : ~working[k].deleted)
    IN [i \in 1..Len(kept) |->
           [game_list[kept[i]] EXCEPT !.platforms = working[kept[i]].platforms]]

\* the game lists get_common_games hands over: entries of different release
\* keys, sorted by sanitized title ("gamea", "gameb"), each with its one
\* platform and a sorted owners list
DedupLists ==
    LET keys == {"steam_100", "gog_100", "steam_200", "epic_300"}
        titles == {<<103, 97, 109, 101, 97>>, <<103, 97, 109, 101, 98>>}
        entries == [release_key : keys, sanitized_title : titles,
                    owners : {<<7>>, <<7, 8>>}]
    IN UNION {{[k \in 1..n |->
                   [release_key |-> l[k].release_key,
                    sanitized_title |-> l[k].sanitized_title,
                    owners |-> l[k].owners,
                    platforms |-> <<PlatformOf(l[k].release_key)>>]] :
               l \in {m \in [1..n -> entries] :
                        \A i \in 1..n : \A j \in (i + 1)..n :
                            /\ m[i].release_key # m[j].release_key
                            /\ ~StrLess(m[j].sanitized_title,
                                        m[i].sanitized_title)}} :
              n \in 0..Cardinality(keys)}

DedupInit ==
    /\ \E l \in DedupLists :
          dedup = [pc |-> "called", game_list |-> l, merged |-> <<>>]
    /\ proc = NoProcs
    /\ query = NoQuery
    /\ keyCall = NoKeyCall
    /\ batch = NoBatch
    /\ StoreInit /\ OrderIdle /\ TwiceIdle /\ DiskInit

DedupCall ==
    /\ dedup.pc = "called"
    /\ dedup' = [dedup EXCEPT !.pc = "returned",
                              !.merged = MergeDuplicateTitles(dedup.game_list)]
    /\ UNCHANGED <<mergeVars, orderVars, twiceVars, diskVars, proc, query,
                   keyCall, batch>>

SpecDedup == DedupInit /\ [][DedupCall]_vars

\* ------------------------------------------ an ingestion over all users
\* what the loop over config["users"] meets for a user: no "db" entry, a
\* database file that is missing, extract_user_data raising ValueError (bad
\* signature) or Exception (extraction error), each a record with the field
\* failed, or the batch it returns.  The
\* batches carry the comment and url of the configured metadata, both set or
\* both None, as texts that name the user.
UserOutcomes(user_id) ==
    LET noted(game_data, set) ==
            game_data @@ [comment |-> IF set THEN <<<<"comment", user_id>>>>
                                      ELSE None,
                          url |-> IF set THEN <<<<"url", user_id>>>> ELSE None]
        plain == {ExtractUserData(user_id, owned, {},
                                  [k \in owned |->
                                      [platforms |-> <<PlatformOf(k)>>,
                                       multiplayer |-> TRUE,
                                       max_players |-> Some(2)]]) :
                  owned \in SUBSET ReleaseKeys}
    IN {[failed |-> f] : f \in {"no_db", "missing", "ValueError", "Exception"}}
       \cup UNION {{[user_data |-> b.user_data,
                games |-> [k \in DOMAIN b.games |-> noted(b.games[k], k \in set)]] :
               set \in SUBSET DOMAIN b.games} : b \in plain}

\* a loop that gives up at the first user it cannot ingest
AfterFailure_Abort(next) == Len(OrderUsers) + 1

\* continue: the loop goes on with the next user
AfterFailure(next) == next + 1

BatchInit ==
    /\ \E outcome \in [1..Len(OrderUsers) ->
                          UNION {UserOutcomes(OrderUsers[i]) :
                                    i \in 1..Len(OrderUsers)}] :
          /\ \A i \in 1..Len(OrderUsers) :
                outcome[i] \in UserOutcomes(OrderUsers[i])
          /\ batch = [pc |-> "run", outcome |-> outcome, rebuild |-> 1,
                      data_store |-> EmptyStore, process |-> 1,
                      all_games |-> EmptyMap]
    /\ proc = NoProcs
    /\ query = NoQuery
    /\ keyCall = NoKeyCall
    /\ dedup = NoDedup
    /\ StoreInit /\ OrderIdle /\ TwiceIdle /\ DiskInit

batchIdle == <<mergeVars, orderVars, twiceVars, diskVars, proc, query, keyCall,
               dedup>>

\* rebuild_data_store, one turn of its loop
RebuildUser ==
    /\ batch.pc = "run"
    /\ batch.rebuild <= Len(OrderUsers)
    /\ LET outcome == batch.outcome[batch.rebuild]
       IN IF "failed" \in DOMAIN outcome
          THEN batch' = [batch EXCEPT !.rebuild = AfterFailure(@)]
          ELSE batch' = [batch EXCEPT
                            !.rebuild = @ + 1,
                            !.data_store =
                                UpdateUserData(@, OrderUsers[batch.rebuild],
                                               outcome.user_data, outcome.games)]
    /\ UNCHANGED batchIdle

\* process_all_users, one turn of its loop
ProcessUser ==
    /\ batch.pc = "run"
    /\ batch.process <= Len(OrderUsers)
    /\ LET outcome == batch.outcome[batch.process]
           user_id == OrderUsers[batch.process]
           merged(existing_game, game_data) ==
               [existing_game EXCEPT
                   !.owners = AppendIfMissing(@, user_id),
                   !.installed = IF Contains(game_data.installed, user_id)
                                 THEN AppendIfMissing(@, user_id) ELSE @,
                   !.platforms = MergePlatforms(@, game_data.platforms),
                   !.multiplayer = MergeMultiplayer(@, game_data.multiplayer),
                   !.max_players = MergeMaxPlayers(@, game_data.max_players)]
       IN IF "failed" \in DOMAIN outcome
          THEN batch' = [batch EXCEPT !.process = AfterFailure(@)]
          ELSE batch' = [batch EXCEPT
                            !.process = @ + 1,
                            !.all_games =
                                [k \in DOMAIN @ \cup DOMAIN outcome.games |->
                                    IF k \notin DOMAIN outcome.games THEN @[k]
                                    ELSE IF k \in DOMAIN @
                                    THEN merged(@[k], outcome.games[k])
                                    ELSE outcome.games[k]]]
    /\ UNCHANGED batchIdle

\* both loops are through
BatchReturn ==
    /\ batch.pc = "run"
    /\ batch.rebuild > Len(OrderUsers)
    /\ batch.process > Len(OrderUsers)
    /\ batch' = [batch EXCEPT !.pc = "done"]
    /\ UNCHANGED batchIdle

BatchNext ==
    \/ RebuildUser
    \/ ProcessUser
    \/ BatchReturn

SpecBatch == BatchInit /\ [][BatchNext]_vars

\* ------------------------------------------------------------------ claims
Owners(k) == Range(store.games[k].owners)

Installed(k) == Range(store.games[k].installed)

\* C1: every game of the catalog has at least one owner, and everyone who has
\* it installed owns it.
C1_InstalledSubsetOfOwners ==
    \A k \in DOMAIN store.games :
        /\ store.games[k].owners # <<>>
        /\ Installed(k) \subseteq Owners(k)

\* C1 witness: a removal has left a game that still has an owner who has it
\* installed, after it deleted another game.
C1_Witness ==
    /\ lastOp.op = "remove"
    /\ lastOp.deleted # {}
    /\ \E k \in DOMAIN store.games : Installed(k) # {}

\* C4, as claimed: a merge never takes anyone out of a game's installed list.
C4_MergeNeverUninstalls ==
    [][lastOp'.op = "update" =>
         \A k \in DOMAIN store.games :
             Installed(k) \subseteq Range(store'.games[k].installed)]_vars

\* C4, amended: merging the batch of user u into a game already in the
\* catalog leaves every other user's installed status as it was; u is in
\* installed afterwards exactly when the incoming record marks u installed.
\* A game the batch does not list is left as it was.
C4_MergeSetsOwnInstalled ==
    \A u \in Users : \A b \in Batches[u] :
        LET after == UpdateUserData(store, u, b.user_data, b.games)
        IN \A k \in DOMAIN store.games :
              IF k \in DOMAIN b.games
              THEN Range(after.games[k].installed) =
                     IF Contains(b.games[k].installed, u)
                     THEN Installed(k) \cup {u}
                     ELSE Installed(k) \ {u}
              ELSE after.games[k] = store.games[k]

\* C4 witness: a merge has just taken its user out of the installed list of a
\* game that another user still has installed.
C4_Witness ==
    /\ lastOp.op = "update"
    /\ \E k \in lastOp.uninstalled : Installed(k) # {}

\* C5: remove_user_data(u) deletes u from users, takes u out of every owners
\* and installed list, deletes exactly the games left without owner and
\* leaves everything else of the other games and users as it was.
C5_RemoveUser ==
    [][lastOp'.op = "remove" =>
         LET u == lastOp'.user
         IN /\ DOMAIN store'.users = DOMAIN store.users \ {u}
            /\ \A v \in DOMAIN store'.users : store'.users[v] = store.users[v]
            /\ DOMAIN store'.games = {k \in DOMAIN store.games : Owners(k) # {u}}
            /\ \A k \in DOMAIN store'.games :
                  /\ store'.games[k].owners =
                        SelectSeq(store.games[k].owners, LAMBDA v : v # u)
                  /\ store'.games[k].installed =
                        SelectSeq(store.games[k].installed, LAMBDA v : v # u)
                  /\ store'.games[k] =
                        [store.games[k] EXCEPT
                            !.owners = store'.games[k].owners,
                            !.installed = store'.games[k].installed]]_vars

\* C5 witness: a removal has deleted one game and kept another, which the
\* removed user owned and had installed together with someone else.
C5_Witness ==
    /\ lastOp.op = "remove"
    /\ lastOp.deleted # {}
    /\ lastOp.uninstalled # {}
    /\ lastOp.user \notin DOMAIN store.users

\* the catalog content C2 compares: per release key the owners, the
\* platforms, the multiplayer flag and max_players (owners and platforms are
\* sets in the data model, so their list order is not part of the content)
Content(data_store) ==
    [k \in DOMAIN data_store.games |->
        [owners |-> Range(data_store.games[k].owners),
         platforms |-> Range(data_store.games[k].platforms),
         multiplayer |-> data_store.games[k].multiplayer,
         max_players |-> data_store.games[k].max_players]]

\* C2: once all three users are merged, the catalog built in the order
\* A, B, C has the content of the one built in the order C, B, A.
C2_MergeOrderIrrelevant ==
    ordStep = NumOrderUsers => Content(ordFwd) = Content(ordRev)

\* C2 witness: both orders are complete, all three users own one game with
\* three different incoming player counts and platforms, and the two stores
\* differ as Python values (list order).
C2_Witness ==
    /\ ordStep = NumOrderUsers
    /\ ordFwd # ordRev
    /\ \E k \in DOMAIN ordFwd.games :
          /\ Range(ordFwd.games[k].owners) = Range(OrderUsers)
          /\ Cardinality({ordBatch[i].games[k].max_players :
                             i \in 1..NumOrderUsers}) = NumOrderUsers
          /\ Len(ordFwd.games[k].platforms) > 1

\* C3: merging the same batch for the same user a second time changes
\* nothing: the users map and every game are as after the first merge.
C3_MergeIdempotent ==
    twice.applied = 2 => store = twice.once

\* C3 witness: the batch was merged twice into a store where the first
\* merge took the user out of an installed list and added a platform.
C3_Witness ==
    /\ twice.applied = 2
    /\ \E k \in DOMAIN twice.batch.games :
          /\ twice.batch.games[k].installed = <<>>
          /\ Len(store.games[k].platforms) > 1
          /\ Len(store.games[k].owners) > 1
    /\ twice.once.users[twice.user].total_games > 0

ExistingBackups == {k \in BackupSlots : fs[BackupPath(k)] # Absent}

\* C6: a load after a save that returned True gives back a store with the
\* users map (integer keys) and the games map of the store that was saved.
C6_SaveLoadRoundTrip ==
    (loaded.done /\ ret = "True") =>
        /\ loaded.value # <<>>
        /\ loaded.value[1].users = store.users
        /\ loaded.value[1].games = store.games

\* C6 witness: a store with two users and a game without and a game with a
\* player count was saved and loaded back.
C6_Witness ==
    /\ loaded.done
    /\ ret = "True"
    /\ DOMAIN store.users = Users
    /\ \E k \in DOMAIN store.games : store.games[k].max_players = None
    /\ \E k \in DOMAIN store.games :
          /\ store.games[k].max_players # None
          /\ store.games[k].installed # <<>>

\* C7, as claimed: after four saves that returned True, starting without any
\* file, the backup slots 1, 2 and 3 exist.
C7_ThreeBackupsAfterFourSaves ==
    (pc = "idle" /\ ret = "True" /\ Len(saved) = 4) =>
        ExistingBackups = 1..max_backups

\* every backup slot that exists holds, whole, the document that was the live
\* file k saves before the current one
SlotsHoldHistory ==
    \A k \in ExistingBackups :
        /\ Len(saved) > k
        /\ fs[BackupPath(k)] = saved[Len(saved) - k]

C9_AnyFailedStepFailsSave ==
    (pc = "idle" /\ ret \in {"True", "False"} /\ call.fault # "none") =>
        (ret = "False" /\ fs[LivePath] = call.preLive)

\* C9, amended: when building the document or writing the temporary file
\* fails, the save returns False, and whenever it returns False the live file
\* is as it was when the call began; a failed rotation step by itself leaves
\* the live file alone but does not stop the save.
C9_FailedSaveLeavesLive ==
    /\ call.fault \in {"serialize", "write"} => ret = "False"
    /\ ret = "False" => fs[LivePath] = call.preLive
    /\ (call.fault = "rotate" /\ pc \in {"stamp", "write", "move"}) =>
          fs[LivePath] = call.preLive

\* C9 witness: a save over an existing live file returned False after the
\* rotation had made its backup and the write of the temporary file failed
\* part way.
C9_Witness ==
    /\ ret = "False"
    /\ call.fault = "write"
    /\ fs[LivePath] # Absent
    /\ fs[BackupPath(1)] = fs[LivePath]
    /\ fs[TmpPath] # Absent /\ ~fs[TmpPath][1].complete

FirstSteamIndex(releases) ==
    LET hits == {i \in 1..Len(releases) :
                    /\ releases[i][1] = "steam" /\ Len(releases[i]) >= 2
                    /\ ~(Len(releases[i]) >= 3 /\ releases[i][2] = "steam")}
    IN IF hits = {} THEN 0 ELSE CHOOSE i \in hits : \A j \in hits : i <= j

FirstGogIndex(releases) ==
    LET hits == {i \in 1..Len(releases) :
                    releases[i][1] = "gog" /\ Len(releases[i]) >= 2}
    IN IF hits = {} THEN 0 ELSE CHOOSE i \in hits : \A j \in hits : i <= j

\* C19, as claimed: for a release key whose own platform tag is steam the
\* resolution returns the release key unchanged, whatever aliases are listed.
C19_SteamKeyUnchanged ==
    (keyCall.pc = "returned" /\ keyCall.release_key[1] = "steam") =>
        keyCall.returned = keyCall.release_key

\* C20: for a release key that is not a Steam key the resolution returns the
\* first alias that starts with steam_ but not steam_steam_, else the first
\* alias that starts with gog_, else (or without alias list) the release key;
\* the aliases origin_55, steam_55, steam_steam_55 resolve to steam_55.
C20_AliasResolution ==
    (keyCall.pc = "returned" /\ keyCall.release_key[1] # "steam") =>
        /\ IF "releases" \notin DOMAIN keyCall.result
           THEN keyCall.returned = keyCall.release_key
           ELSE LET releases == keyCall.result.releases
                    s == FirstSteamIndex(releases)
                    g == FirstGogIndex(releases)
                IN keyCall.returned =
                      IF s > 0 THEN releases[s]
                      ELSE IF g > 0 THEN releases[g]
                      ELSE keyCall.release_key
        /\ ("releases" \in DOMAIN keyCall.result
              /\ keyCall.result.releases =
                    <<<<"origin", "55">>, <<"steam", "55">>,
                      <<"steam", "steam", "55">>>>)
              => keyCall.returned = <<"steam", "55">>

\* C20 witness: a GOG key whose aliases list a nested steam_steam_ key before
\* a Steam key and a GOG key was resolved to the Steam key.
C20_Witness ==
    /\ keyCall.pc = "returned"
    /\ keyCall.release_key = <<"gog", "55">>
    /\ "releases" \in DOMAIN keyCall.result
    /\ Len(keyCall.result.releases) = 3
    /\ keyCall.result.releases[1] = <<"steam", "steam", "55">>
    /\ keyCall.result.releases[2] = <<"gog", "55">>
    /\ keyCall.returned = <<"steam", "77">>

\* the document in the live file, when there is a whole one
LiveDoc == fs[LivePath][1].doc

\* C12: load_data_store never raises.  It returns None when the live file is
\* missing, is not parseable, or lacks users, games or last_updated or, in a
\* record, a field without default; a document of the store that lacks only
\* version loads as that store, with version "1.0".
C12_LoadNeverRaises ==
    loaded.done =>
        /\ ~loaded.raised
        /\ (\/ fs[LivePath] = Absent
            \/ ~fs[LivePath][1].complete
            \/ ~({"users", "games", "last_updated"} \subseteq DOMAIN LiveDoc)
            \/ \E key \in DOMAIN LiveDoc.users :
                  ~({"user_id", "total_games", "installed_games"}
                       \subseteq DOMAIN LiveDoc.users[key])
            \/ \E k \in DOMAIN LiveDoc.games :
                  ~({"release_key", "platforms", "owners", "installed"}
                       \subseteq DOMAIN LiveDoc.games[k]))
              => loaded.value = <<>>
        /\ fs[LivePath] = Whole(DropField(Serialize(store), "version"))
              => /\ loaded.value = <<store>>
                 /\ loaded.value[1].version = "1.0"

\* C12 witness: a document of two users and a game was loaded in which one
\* user record lacks total_games, and the load returned None.
C12_Witness ==
    /\ loaded.done
    /\ loaded.value = <<>>
    /\ fs[LivePath] # Absent
    /\ fs[LivePath][1].complete
    /\ {"users", "games", "last_updated", "version"} \subseteq DOMAIN LiveDoc
    /\ DOMAIN LiveDoc.games # {}
    /\ \A k \in DOMAIN LiveDoc.games : DOMAIN LiveDoc.games[k] = GameFields
    /\ Cardinality(DOMAIN LiveDoc.users) = 2
    /\ \E key \in DOMAIN LiveDoc.users :
          "total_games" \notin DOMAIN LiveDoc.users[key]

\* the store a load of the live file gives, as a set of zero or one stores
LiveStores == Range(LoadDataStore(fs))

\* C11: two ingestion requests for different users, each load_data_store,
\* update_user_data, save_data_store, with nothing serializing them.  When
\* one request loads only after the other has returned, both saves return
\* True and the live file holds both users, each owning the games of its
\* batch.  (That an interleaving loses an update is the witness.)
C11_SerializedKeepsBoth ==
    \A p \in Users : \A q \in Users \ {p} :
        (proc[p].pc = "done" /\ proc[q].pc = "done" /\ p \in proc[q].after) =>
            /\ proc[p].ret = "True" /\ proc[q].ret = "True"
            /\ LiveStores # {}
            /\ \A data_store \in LiveStores :
                  /\ DOMAIN data_store.users = Users
                  /\ \A u \in Users :
                        Cardinality({k \in DOMAIN data_store.games :
                                        Contains(data_store.games[k].owners, u)})
                            = data_store.users[u].total_games

\* C11 witness: both requests have returned True, neither loaded after the
\* other had returned, and the live file is a whole document that holds one
\* of the two users only.
C11_Witness ==
    /\ \A p \in Users :
          proc[p].pc = "done" /\ proc[p].ret = "True" /\ proc[p].after = {}
    /\ \E data_store \in LiveStores :
          Cardinality(DOMAIN data_store.users) = 1

\* the users a query selects, the release keys of a list of entries, and
\* whether the query has been through filter_games
Target == query.opts.user_ids_to_compare

EntryKeys(game_list) == {game_list[i].release_key : i \in 1..Len(game_list)}

Filtered ==
    /\ query.pc \in {"render", "print", "done", "raised"}
    /\ (query.entry = "web" \/ query.path = "direct")

\* the platform and single player filters of the store query, on a game
PassesOtherFilters(k) ==
    /\ \/ query.opts.exclude_platforms = <<>>
       \/ \E platform \in Range(store.games[k].platforms) :
             platform \notin Range(query.opts.exclude_platforms)
    /\ (query.opts.include_single_player \/ store.games[k].multiplayer)

\* C13: in non-exclusive mode the comparison keeps a game if and only if
\* every selected user is among its owners: in the store query for the games
\* the platform and single player filters let through, and in filter_games
\* (outside all-games mode) for the games its other filters let through.
C13_NonExclusiveKeepsCommon ==
    /\ (query.path = "store" /\ ~query.opts.exclusive) =>
          \A k \in DOMAIN store.games :
              /\ k \in EntryKeys(query.common) => Target \subseteq Owners(k)
              /\ (Target \subseteq Owners(k) /\ PassesOtherFilters(k))
                    => k \in EntryKeys(query.common)
    /\ (Filtered /\ ~query.opts.exclusive /\ ~query.opts.all_games) =>
          \A i \in 1..Len(query.common) :
              LET game == query.common[i]
              IN /\ game \in Range(query.filtered)
                       => Target \subseteq Range(game.owners)
                 /\ (/\ Target \subseteq Range(game.owners)
                     /\ (query.opts.include_single_player \/ game.multiplayer)
                     /\ (query.opts.installed_only
                            => Target \subseteq Range(game.installed)))
                       => game \in Range(query.filtered)

\* C13 witness: a non-exclusive store query for two users has kept a game
\* both own and dropped a multiplayer game only one of them owns.
C13_Witness ==
    /\ query.path = "store"
    /\ ~query.opts.exclusive
    /\ Cardinality(Target) = 2
    /\ query.common # <<>>
    /\ \E k \in DOMAIN store.games \ EntryKeys(query.common) :
          /\ store.games[k].multiplayer
          /\ Cardinality(Owners(k) \cap Target) = 1

\* C14, as claimed: in exclusive mode (outside all-games mode, without
\* installed_only, excluded platforms or random pick) the result of a query
\* holds a game, among those the single player filter lets through, if and
\* only if a selected user owns it and no other known user does; with the
\* users 1, 2, 3 known and user 1 selected, a game owned by 1 alone is kept
\* and a game owned by 1 and 2 is dropped.
C14_ExclusiveKeepsOwnOnly ==
    (/\ query.pc = "done"
     /\ query.opts.exclusive
     /\ ~query.opts.all_games
     /\ ~query.opts.installed_only
     /\ query.opts.exclude_platforms = <<>>
     /\ ~query.opts.randomize) =>
        \A k \in DOMAIN store.games :
            LET exclusive_to_target ==
                    /\ Owners(k) \cap Target # {}
                    /\ Owners(k) \cap (DOMAIN store.users \ Target) = {}
            IN /\ k \in EntryKeys(query.result) => exclusive_to_target
               /\ (exclusive_to_target /\ PassesOtherFilters(k))
                     => k \in EntryKeys(query.result)
               /\ (DOMAIN store.users = {1, 2, 3} /\ Target = {1}) =>
                     /\ (Owners(k) = {1} /\ PassesOtherFilters(k))
                           => k \in EntryKeys(query.result)
                     /\ Owners(k) = {1, 2} => k \notin EntryKeys(query.result)

\* C15, as claimed: with installed_only set (outside all-games mode and
\* without random pick) the result of a query holds a game if and only if it
\* passes the other filters and every selected user has it installed.
C15_InstalledOnlyResult ==
    (/\ query.pc = "done"
     /\ query.opts.installed_only
     /\ ~query.opts.all_games
     /\ ~query.opts.randomize) =>
        /\ \A i \in 1..Len(query.result) :
              Target \subseteq Range(query.result[i].installed)
        /\ \A i \in 1..Len(query.common) :
              LET game == query.common[i]
              IN (/\ Target \subseteq Range(game.installed)
                  /\ Target \subseteq Range(game.owners)
                  /\ (query.opts.include_single_player \/ game.multiplayer))
                    => game \in Range(query.result)

\* "gog_100" < "steam_100" < "steam_200" as strings
KeyRank(release_key) ==
    CASE release_key = "gog_100" -> 1
      [] release_key = "steam_100" -> 2
      [] OTHER -> 3

\* C16, as claimed: the result of a query is in ascending order of slug, and
\* entries of equal slug are in the order of their release keys.
C16_ResultSortedBySlug ==
    query.pc = "done" =>
        \A i \in 1..Len(query.result) : \A j \in (i + 1)..Len(query.result) :
            \/ StrLess(query.result[i].slug, query.result[j].slug)
            \/ /\ query.result[i].slug = query.result[j].slug
               /\ KeyRank(query.result[i].release_key)
                     < KeyRank(query.result[j].release_key)

\* C17, as claimed: with randomize set the request completes for any query,
\* the result is exactly one record of the filtered set, and the caption
\* reports the size of the filtered set.
C17_RandomPickCompletes ==
    (/\ query.entry = "web"
     /\ query.opts.randomize
     /\ query.pc \in {"done", "raised"}) =>
        /\ query.pc = "done"
        /\ Len(query.result) = 1
        /\ query.result[1] \in Range(query.filtered)
        /\ query.caption.caption_start.num_games = Len(query.filtered)

\* C18, as claimed: in all-games mode (no exclusive mode, no excluded
\* platform, no random pick) the result lists every game that one of the
\* selected users owns, single player games only when asked for, on the
\* store path as on the direct path; the owner and installed filters are not
\* applied.
C18_AllGamesListsUnion ==
    (/\ query.pc = "done"
     /\ query.opts.all_games
     /\ ~query.opts.exclusive
     /\ query.opts.exclude_platforms = <<>>
     /\ ~query.opts.randomize) =>
        EntryKeys(query.result) =
            {k \in DOMAIN store.games :
                /\ Owners(k) \cap Target # {}
                /\ (query.opts.include_single_player \/ store.games[k].multiplayer)}

\* entries k and k + 1 of the list handed to merge_duplicate_titles have the
\* same sanitized title and the same owners
DuplicatePair(k) ==
    /\ dedup.game_list[k].sanitized_title = dedup.game_list[k + 1].sanitized_title
    /\ dedup.game_list[k].owners = dedup.game_list[k + 1].owners

\* C21, as claimed: of two entries that are adjacent after the sort and have
\* the same slug and the same owners the second is dropped, and the first of
\* such a run is kept with its owners and with platforms that are sorted,
\* without duplicates and hold the platforms of both, wherever the pair is in
\* the list; the list of just steam_100 and gog_100 (slug "gamea", owner 7)
\* becomes the one record steam_100 with platforms [gog, steam].
C21_AdjacentDuplicatesMerged ==
    dedup.pc = "returned" =>
        \A k \in 1..(Len(dedup.game_list) - 1) :
            DuplicatePair(k) =>
                /\ dedup.game_list[k + 1].release_key
                      \notin EntryKeys(dedup.merged)
                /\ (k = 1 \/ ~DuplicatePair(k - 1)) =>
                      \E i \in 1..Len(dedup.merged) :
                          LET game == dedup.merged[i]
                          IN /\ game.release_key = dedup.game_list[k].release_key
                             /\ game.owners = dedup.game_list[k].owners
                             /\ game.platforms = SortedPlatforms(game.platforms)
                             /\ Cardinality(Range(game.platforms))
                                   = Len(game.platforms)
                             /\ Range(dedup.game_list[k].platforms)
                                   \cup Range(dedup.game_list[k + 1].platforms)
                                   \subseteq Range(game.platforms)

\* C22, as claimed: an entry is dropped only when the entry right before it
\* in the sorted list has the same slug and the same owners; entries of the
\* same slug and owners with another entry between them stay apart, and
\* entries with different owners are never merged.
C22_OnlyAdjacentMerged ==
    dedup.pc = "returned" =>
        \A k \in 1..Len(dedup.game_list) :
            dedup.game_list[k].release_key \notin EntryKeys(dedup.merged)
                => (k > 1 /\ DuplicatePair(k - 1))

\* the store that update_user_data builds from the batches at the given
\* positions of batch.outcome, merged in that order
RECURSIVE MergedAlone(_, _)
MergedAlone(positions, data_store) ==
    IF positions = <<>> THEN data_store
    ELSE MergedAlone(Tail(positions),
                     UpdateUserData(data_store, OrderUsers[Head(positions)],
                                    batch.outcome[Head(positions)].user_data,
                                    batch.outcome[Head(positions)].games))

\* the positions of the users whose extraction succeeded
Extracted ==
    SelectSeq([i \in 1..Len(OrderUsers) |-> i],
              LAMBDA i : "failed" \notin DOMAIN batch.outcome[i])

\* C23: when an ingestion over all users is through, whichever users had no
\* database, a missing file, a bad signature or an extraction error, the
\* store of rebuild_data_store is the one built from the other users alone,
\* in their order, and the games of process_all_users are the games of that
\* store.
C23_FailureDoesNotAbort ==
    batch.pc = "done" =>
        /\ batch.data_store = MergedAlone(Extracted, EmptyStore)
        /\ batch.all_games = MergedAlone(Extracted, EmptyStore).games

\* C23 witness: the extraction of the second user raised, the first and the
\* third user were merged and share a game.
C23_Witness ==
    /\ batch.pc = "done"
    /\ batch.outcome[2] = [failed |-> "ValueError"]
    /\ DOMAIN batch.data_store.users = {OrderUsers[1], OrderUsers[3]}
    /\ \E k \in DOMAIN batch.all_games :
          batch.all_games[k].owners = <<OrderUsers[1], OrderUsers[3]>>

\* the first value that is set among the comment (or url) fields that the
\* batches merged so far carry for a game, None when none is set
FirstWritten(k, field) ==
    LET writers == SelectSeq(Extracted,
                             LAMBDA i : /\ i < batch.rebuild
                                        /\ k \in DOMAIN batch.outcome[i].games
                                        /\ batch.outcome[i].games[k][field] # None)
    IN IF writers = <<>> THEN None
       ELSE batch.outcome[Head(writers)].games[k][field]

\* C25, as claimed: comment and url are first-write-wins under merge: a game
\* of the store carries the first comment and the first url that was set
\* among the batches merged so far, a set value being kept and an unset one
\* replaced by the incoming value.
C25_CommentFirstWriteWins ==
    \A k \in DOMAIN batch.data_store.games :
        /\ batch.data_store.games[k].comment = FirstWritten(k, "comment")
        /\ batch.data_store.games[k].url = FirstWritten(k, "url")

\* a merge of the batch incoming into the store before, giving after, sets
\* multiplayer to (existing OR incoming) and max_players to the greatest known
\* value for every game both have, and so never takes a flag or a count back
MergedUpward(before, incoming, after) ==
    \A k \in DOMAIN before.games :
        LET existing_game == before.games[k]
            known == {existing_game.max_players, incoming[k].max_players}
                        \ {None}
        IN /\ k \in DOMAIN after.games
           /\ k \in DOMAIN incoming =>
                 /\ after.games[k].multiplayer
                       = (existing_game.multiplayer \/ incoming[k].multiplayer)
                 /\ after.games[k].max_players =
                       IF known = {} THEN None
                       ELSE CHOOSE m \in known : \A n \in known : m[1] >= n[1]
           /\ existing_game.multiplayer => after.games[k].multiplayer
           /\ existing_game.max_players # None =>
                 /\ after.games[k].max_players # None
                 /\ after.games[k].max_players[1] >= existing_game.max_players[1]

\* C24: every merge of a rebuild, in either order of the users, sets
\* multiplayer to (existing OR incoming) and max_players to the maximum of the
\* known values for the games already in the catalog; multiplayer never goes
\* from true to false and max_players never decreases or becomes unknown.
C24_PlayersNeverDowngrade ==
    [][/\ MergedUpward(ordFwd, ordBatch[ordStep + 1].games, ordFwd')
       /\ MergedUpward(ordRev, ordBatch[NumOrderUsers - ordStep].games, ordRev')]_vars

\* C24 witness: a multiplayer game for four players has met a batch that
\* calls it single player with no player count, and a game of unknown player
\* count has met a batch that knows one.
C24_Witness ==
    /\ ordStep = 2
    /\ \E k \in DOMAIN ordBatch[1].games \cap DOMAIN ordBatch[2].games :
          /\ ordBatch[1].games[k].multiplayer
          /\ ordBatch[1].games[k].max_players = Some(4)
          /\ ~ordBatch[2].games[k].multiplayer
          /\ ordBatch[2].games[k].max_players = None
          /\ ordFwd.games[k].multiplayer
          /\ ordFwd.games[k].max_players = Some(4)
          /\ ordRev.games[k].max_players # None

\* C26, as claimed: after every merge the platforms list of each game of the
\* catalog is sorted ascending and without duplicates, and when the rebuild
\* is through the list is the same whichever order the users were merged in.
C26_PlatformsSortedUnique ==
    \A k \in DOMAIN ordFwd.games :
        /\ ordFwd.games[k].platforms = SortedPlatforms(ordFwd.games[k].platforms)
        /\ Cardinality(Range(ordFwd.games[k].platforms))
              = Len(ordFwd.games[k].platforms)
        /\ ordStep = NumOrderUsers =>
              ordFwd.games[k].platforms = ordRev.games[k].platforms

\* C27, as claimed: when save_data_store has returned False, every backup
\* slot holds what it held when the call began, and no slot has appeared or
\* gone.
C27_FailedSaveLeavesBackups ==
    (pc = "idle" /\ ret = "False") =>
        \A i \in BackupSlots : fs[BackupPath(i)] = call.preBackups[i]

\* C28: after any sequence of update_user_data and remove_user_data calls
\* on a store that began empty, every user id in the owners or the installed
\* list of a game is a key of store.users.
C28_OwnersAreKnownUsers ==
    \A k \in DOMAIN store.games :
        /\ Range(store.games[k].owners) \subseteq DOMAIN store.users
        /\ Range(store.games[k].installed) \subseteq DOMAIN store.users

\* C28 witness: a user was removed while the other user stays owner and
\* installer of a game.
C28_Witness ==
    /\ lastOp.op = "remove"
    /\ lastOp.user \notin DOMAIN store.users
    /\ \E u \in DOMAIN store.users : \E k \in DOMAIN store.games :
          /\ Contains(store.games[k].owners, u)
          /\ Contains(store.games[k].installed, u)
    /\ lastOp.deleted # {}

\* C29, as claimed: for every user of the store, the number of games that
\* list the user as owner is the user's total_games and the number that list
\* the user as installed is the user's installed_games.
C29_CountsMatchCatalog ==
    \A u \in DOMAIN store.users :
        /\ Cardinality({k \in DOMAIN store.games :
                           Contains(store.games[k].owners, u)})
              = store.users[u].total_games
        /\ Cardinality({k \in DOMAIN store.games :
                           Contains(store.games[k].installed, u)})
              = store.users[u].installed_games

\* the live file is missing or the whole document of a store that was passed
\* to a save (or of the store found at the start)
LiveIsSavedStore ==
    fs[LivePath] # Absent =>
        \/ fs[LivePath] = Whole(Serialize(EmptyStore))
        \/ \E p \in Users :
              /\ proc[p].pc \in {"write", "move", "done"}
              /\ fs[LivePath] = Whole(Serialize(proc[p].ds))

\* once a save has returned True, the live file changes only by the move of
\* a save that replaces it with its temporary file
LiveChangesByMoveOnly ==
    ((\E p \in Users : proc[p].ret = "True") /\ fs'[LivePath] # fs[LivePath])
        => (fs'[LivePath] = fs[TmpPath] /\ fs'[TmpPath] = Absent)

\* C30, as claimed: with two saves in flight on one store path, the live
\* file is in every state the complete document of exactly one store passed
\* to a save, never a mix and never cut short, and after a save has returned
\* True it is only changed by another save replacing it.
C30_LiveWholeUnderTwoSaves ==
    []LiveIsSavedStore /\ [][LiveChangesByMoveOnly]_vars

====
